---- MODULE Spec2Model ----
(***************************************************************************)
(* Hybrid retrieval orchestration of RAG_BOT_Fin.py: the query classifier  *)
(* (SmartSearchDecider.analyze_query), the context assembler               *)
(* (RAGRetriever.get_context), the context combiner                        *)
(* (SmartSearchDecider.combine_contexts) and the conversation session      *)
(* (ConversationalRealEstateSystem).                                       *)
(*                                                                         *)
(* Python strings are modelled as sequences of one-character strings, so   *)
(* that lower(), strip(), `in` (substring containment), + (concatenation)  *)
(* and len() are computed as Python computes them.                         *)
(***************************************************************************)
EXTENDS Integers, Sequences, FiniteSets, TLC

VARIABLES
  query,                \* analyze_query: user_input
  probe,                \* analyze_query: rag_retriever (None or its k=1 result)
  decision,             \* analyze_query: returned decision
  hits,                 \* get_context: what self.retrieve(query) returns
  max_tokens,           \* get_context: max_tokens
  context,              \* get_context: returned string
  rag_text,             \* combine_contexts: rag_context
  search_text,          \* combine_contexts: search_context
  query_type,           \* combine_contexts: query_type
  combined,             \* combine_contexts: returned string
  conversation_memory,  \* self.conversation_memory
  json_context,         \* self.json_context
  session_file,         \* content of the file named self.session_file
  appended,             \* number of exchanges appended so far (time.time() order)
  turn,                 \* the last chat() call: input, calls made and their outcomes, result
  process,              \* the Python process: "running", "appending" (inside _add_to_memory),
                        \* "exiting" (atexit pending) or "terminated"
  last_save,            \* the last _auto_save call: its caller, its outcome and its save_data
  returned              \* whether the function under study has returned

classVars   == <<query, probe, decision>>
contextVars == <<hits, max_tokens, context>>
combineVars == <<rag_text, search_text, query_type, combined>>
sessionVars == <<conversation_memory, json_context, session_file, appended, turn,
                 process, last_save>>
vars == <<query, probe, decision, hits, max_tokens, context,
          rag_text, search_text, query_type, combined,
          conversation_memory, json_context, session_file, appended, turn,
          process, last_save, returned>>

(***************************************************************************)
(* Bounds                                                                  *)
(***************************************************************************)
MaxWords == 3       \* words per generated query
MaxHits == 3        \* hits returned by the retriever (at most k = 5)
MaxBudget == 3      \* largest token budget tried
MaxExchanges == 1   \* exchanges recorded in a session
MaxAppends == 25    \* exchanges recorded in a long session

(***************************************************************************)
(* Python string operations                                                *)
(***************************************************************************)
UpperCase == <<"A","B","C","D","E","F","G","H","I","J","K","L","M",
               "N","O","P","Q","R","S","T","U","V","W","X","Y","Z">>
LowerCase == <<"a","b","c","d","e","f","g","h","i","j","k","l","m",
               "n","o","p","q","r","s","t","u","v","w","x","y","z">>

\* str.lower() on one character
LowerChar(c) ==
  IF \E i \in 1..Len(UpperCase) : UpperCase[i] = c
    THEN LowerCase[CHOOSE i \in 1..Len(UpperCase) : UpperCase[i] = c]
    ELSE c

\* str.lower()
lower(s) == [i \in 1..Len(s) |-> LowerChar(s[i])]

\* t in s
Contains(s, t) ==
  \E i \in 0..(Len(s) - Len(t)) : SubSeq(s, i + 1, i + Len(t)) = t

\* sep.join(parts)
RECURSIVE Join(_, _)
Join(parts, sep) ==
  IF Len(parts) = 0 THEN << >>
  ELSE IF Len(parts) = 1 THEN parts[1]
  ELSE parts[1] \o sep \o Join(Tail(parts), sep)

(***************************************************************************)
(* SmartSearchDecider.__init__: the keyword tables, in definition order    *)
(***************************************************************************)
stable_topics ==
  << [category |-> "process", keywords |-> <<
         <<"b","u","y","i","n","g"," ","p","r","o","c","e","s","s">>,
         <<"s","e","l","l","i","n","g"," ","p","r","o","c","e","s","s">>,
         <<"c","l","o","s","i","n","g"," ","p","r","o","c","e","s","s">>,
         <<"m","o","r","t","g","a","g","e"," ","p","r","o","c","e","s","s">>
       >>],
     [category |-> "definitions", keywords |-> <<
         <<"w","h","a","t"," ","i","s">>,
         <<"e","x","p","l","a","i","n">>,
         <<"d","e","f","i","n","e">>,
         <<"h","o","w"," ","d","o","e","s">>,
         <<"h","o","w"," ","d","o">>
       >>],
     [category |-> "historical", keywords |-> <<
         <<"h","i","s","t","o","r","y">>,
         <<"e","s","t","a","b","l","i","s","h","e","d">>,
         <<"f","o","u","n","d","e","d">>,
         <<"o","r","i","g","i","n","a","l","l","y">>
       >>],
     [category |-> "features", keywords |-> <<
         <<"a","m","e","n","i","t","i","e","s">>,
         <<"c","h","a","r","a","c","t","e","r","i","s","t","i","c","s">>,
         <<"f","e","a","t","u","r","e","s">>,
         <<"l","i","f","e","s","t","y","l","e">>
       >>],
     [category |-> "geography", keywords |-> <<
         <<"l","o","c","a","t","i","o","n">>,
         <<"b","o","u","n","d","a","r","i","e","s">>,
         <<"d","i","s","t","a","n","c","e">>,
         <<"a","r","e","a">>
       >>] >>

dynamic_topics ==
  << [category |-> "market", keywords |-> <<
         <<"p","r","i","c","e">>,
         <<"r","a","t","e","s">>,
         <<"m","a","r","k","e","t">>,
         <<"t","r","e","n","d","s">>,
         <<"i","n","v","e","n","t","o","r","y">>,
         <<"s","a","l","e","s">>
       >>],
     [category |-> "temporal", keywords |-> <<
         <<"c","u","r","r","e","n","t">>,
         <<"l","a","t","e","s","t">>,
         <<"r","e","c","e","n","t">>,
         <<"t","o","d","a","y">>,
         <<"n","o","w">>,
         <<"2","0","2","4">>,
         <<"2","0","2","5">>
       >>],
     [category |-> "statistics", keywords |-> <<
         <<"a","v","e","r","a","g","e">>,
         <<"m","e","d","i","a","n">>,
         <<"s","t","a","t","i","s","t","i","c","s">>,
         <<"d","a","t","a">>,
         <<"n","u","m","b","e","r","s">>
       >>],
     [category |-> "availability", keywords |-> <<
         <<"a","v","a","i","l","a","b","l","e">>,
         <<"f","o","r"," ","s","a","l","e">>,
         <<"l","i","s","t","i","n","g","s">>,
         <<"o","n"," ","m","a","r","k","e","t">>
       >>],
     [category |-> "news", keywords |-> <<
         <<"n","e","w","s">>,
         <<"a","n","n","o","u","n","c","e","d">>,
         <<"u","p","d","a","t","e">>,
         <<"h","a","p","p","e","n","i","n","g">>,
         <<"e","v","e","n","t","s">>
       >>] >>

hybrid_topics ==
  << [category |-> "neighborhoods", keywords |-> <<
         <<"c","o","r","a","l"," ","g","a","b","l","e","s">>,
         <<"b","r","i","c","k","e","l","l">>,
         <<"w","y","n","w","o","o","d">>,
         <<"a","v","e","n","t","u","r","a">>,
         <<"c","o","c","o","n","u","t"," ","g","r","o","v","e">>,
         <<"s","o","u","t","h"," ","b","e","a","c","h">>
       >>],
     [category |-> "comparison", keywords |-> <<
         <<"c","o","m","p","a","r","e">>,
         <<"v","e","r","s","u","s">>,
         <<"v","s">>,
         <<"b","e","t","t","e","r">>,
         <<"d","i","f","f","e","r","e","n","c","e">>
       >>],
     [category |-> "investment", keywords |-> <<
         <<"r","o","i">>,
         <<"i","n","v","e","s","t">>,
         <<"r","e","n","t","a","l">>,
         <<"r","e","t","u","r","n">>,
         <<"y","i","e","l","d">>
       >>],
     [category |-> "comprehensive", keywords |-> <<
         <<"t","e","l","l"," ","m","e"," ","a","b","o","u","t">>,
         <<"o","v","e","r","v","i","e","w">>,
         <<"g","u","i","d","e">>,
         <<"e","v","e","r","y","t","h","i","n","g">>
       >>] >>

MarketSuffix == <<" ","2","0","2","4"," ","r","e","a","l"," ","e","s","t","a","t","e"," ","M","i","a","m","i">>
ListingsSuffix == <<" ","M","L","S"," ","l","i","s","t","i","n","g","s">>

\* 0.7; relevance scores are kept in ten-thousandths
RelevanceThreshold == 7000

\* rag_retriever=None
NoRetriever == [present |-> FALSE, results |-> << >>]

\* a rag_retriever whose retrieve(user_input, k=1) returns these relevance scores
Retriever(results) == [present |-> TRUE, results |-> results]

\* any(keyword in input_lower for keyword in keywords)
any_keyword(keywords, input_lower) ==
  \E k \in 1..Len(keywords) : Contains(input_lower, keywords[k])

\* `for category, keywords in table.items()` from the i-th category on: the
\* index of the category at which `if any(...)` holds and the loop breaks,
\* 0 when the loop ends without a match
RECURSIVE first_match_from(_, _, _)
first_match_from(table, i, input_lower) ==
  IF i > Len(table) THEN 0
  ELSE IF any_keyword(table[i].keywords, input_lower) THEN i
  ELSE first_match_from(table, i + 1, input_lower)

\* the loop without its break: the last matching category decides
last_match(table, input_lower) ==
  IF \E i \in 1..Len(table) : any_keyword(table[i].keywords, input_lower)
    THEN CHOOSE i \in 1..Len(table) :
           /\ any_keyword(table[i].keywords, input_lower)
           /\ \A j \in (i + 1)..Len(table) : ~any_keyword(table[j].keywords, input_lower)
    ELSE 0

first_match(table, input_lower) == first_match_from(table, 1, input_lower)

\* the category of the i-th entry of a table, "none" for i = 0
category_at(table, i) == IF i = 0 THEN "none" ELSE table[i].category

\* the body of the stable loop at its matching category
stable_step(d, category) ==
  IF category = "none" THEN d
  ELSE [d EXCEPT !.use_rag = TRUE,
                 !.reasoning = @ \o << <<"RAG: ", category, " information is stable. ">> >>]

\* dynamic_step building the refined web query from the lowercased input
dynamic_step_lowered(d, user_input, category) ==
  IF category = "none" THEN d
  ELSE [d EXCEPT !.use_search = TRUE,
                 !.reasoning = @ \o << <<"Search: ", category, " requires current data. ">> >>,
                 !.search_query = IF category = "market" THEN lower(user_input) \o MarketSuffix
                                  ELSE IF category = "availability" THEN lower(user_input) \o ListingsSuffix
                                  ELSE @]

\* the body of the dynamic loop at its matching category
dynamic_step(d, user_input, category) ==
  IF category = "none" THEN d
  ELSE [d EXCEPT !.use_search = TRUE,
                 !.reasoning = @ \o << <<"Search: ", category, " requires current data. ">> >>,
                 !.search_query = IF category = "market" THEN user_input \o MarketSuffix
                                  ELSE IF category = "availability" THEN user_input \o ListingsSuffix
                                  ELSE @]

\* hybrid_step with the comparison branch setting use_search even when a
\* stable category matched (the `if not stable_match` guard dropped)
hybrid_step_ignoring_stable(d, category, input_lower, stable_match, dynamic_match) ==
  IF category = "neighborhoods" /\ dynamic_match
    THEN [d EXCEPT !.use_rag = TRUE, !.use_search = TRUE,
                   !.reasoning = @ \o << <<"Both: Neighborhood details + current market. ">> >>]
  ELSE IF category = "comparison"
    THEN [d EXCEPT !.use_rag = TRUE, !.use_search = TRUE,
                   !.reasoning = @ \o << <<"Both: Static features + current differences. ">> >>]
  ELSE IF category = "investment"
    THEN [d EXCEPT !.use_rag = TRUE, !.use_search = TRUE,
                   !.reasoning = @ \o << <<"Both: Investment strategies + current yields. ">> >>]
  ELSE IF category = "comprehensive"
          /\ any_keyword(hybrid_topics[1].keywords, input_lower)
    THEN [d EXCEPT !.use_rag = TRUE,
                   !.use_search = IF dynamic_match THEN TRUE ELSE @,
                   !.reasoning = @ \o << <<"Comprehensive neighborhood information requested. ">> >>]
  ELSE d

\* hybrid_step with the neighborhoods category, when it has no dynamic
\* match, going on to the comprehensive rule
hybrid_step_falling_through(d, category, input_lower, stable_match, dynamic_match) ==
  IF category = "neighborhoods" /\ dynamic_match
    THEN [d EXCEPT !.use_rag = TRUE, !.use_search = TRUE,
                   !.reasoning = @ \o << <<"Both: Neighborhood details + current market. ">> >>]
  ELSE IF category = "comparison"
    THEN [d EXCEPT !.use_rag = TRUE,
                   !.use_search = IF ~stable_match THEN TRUE ELSE @,
                   !.reasoning = @ \o << <<"Both: Static features + current differences. ">> >>]
  ELSE IF category = "investment"
    THEN [d EXCEPT !.use_rag = TRUE, !.use_search = TRUE,
                   !.reasoning = @ \o << <<"Both: Investment strategies + current yields. ">> >>]
  ELSE IF any_keyword(hybrid_topics[4].keywords, input_lower)
          /\ any_keyword(hybrid_topics[1].keywords, input_lower)
    THEN [d EXCEPT !.use_rag = TRUE,
                   !.use_search = IF dynamic_match THEN TRUE ELSE @,
                   !.reasoning = @ \o << <<"Comprehensive neighborhood information requested. ">> >>]
  ELSE d

\* the body of the hybrid loop at its matching category
hybrid_step(d, category, input_lower, stable_match, dynamic_match) ==
  IF category = "neighborhoods" /\ dynamic_match
    THEN [d EXCEPT !.use_rag = TRUE, !.use_search = TRUE,
                   !.reasoning = @ \o << <<"Both: Neighborhood details + current market. ">> >>]
  ELSE IF category = "comparison"
    THEN [d EXCEPT !.use_rag = TRUE,
                   !.use_search = IF ~stable_match THEN TRUE ELSE @,
                   !.reasoning = @ \o << <<"Both: Static features + current differences. ">> >>]
  ELSE IF category = "investment"
    THEN [d EXCEPT !.use_rag = TRUE, !.use_search = TRUE,
                   !.reasoning = @ \o << <<"Both: Investment strategies + current yields. ">> >>]
  ELSE IF category = "comprehensive"
          /\ any_keyword(hybrid_topics[1].keywords, input_lower)
    THEN [d EXCEPT !.use_rag = TRUE,
                   !.use_search = IF dynamic_match THEN TRUE ELSE @,
                   !.reasoning = @ \o << <<"Comprehensive neighborhood information requested. ">> >>]
  ELSE d

\* default_step with the low-relevance branch enabling both sources
default_step_both(d, rag_retriever) ==
  IF ~d.use_rag /\ ~d.use_search
    THEN IF rag_retriever.present
           THEN IF Len(rag_retriever.results) > 0
                   /\ rag_retriever.results[1] > RelevanceThreshold
                  THEN [d EXCEPT !.use_rag = TRUE,
                                 !.reasoning = << <<"RAG: High relevance content found. ">> >>]
                  ELSE [d EXCEPT !.use_rag = TRUE, !.use_search = TRUE,
                                 !.reasoning = << <<"Default: Checking knowledge base first. ">> >>]
           ELSE [d EXCEPT !.use_rag = TRUE,
                          !.reasoning = << <<"Default: General query, checking knowledge base. ">> >>]
    ELSE d

\* the default decision
default_step(d, rag_retriever) ==
  IF ~d.use_rag /\ ~d.use_search
    THEN IF rag_retriever.present
           THEN IF Len(rag_retriever.results) > 0
                   /\ rag_retriever.results[1] > RelevanceThreshold
                  THEN [d EXCEPT !.use_rag = TRUE,
                                 !.reasoning = << <<"RAG: High relevance content found. ">> >>]
                  ELSE [d EXCEPT !.use_rag = TRUE,
                                 !.reasoning = << <<"Default: Checking knowledge base first. ">> >>]
           ELSE [d EXCEPT !.use_rag = TRUE,
                          !.reasoning = << <<"Default: General query, checking knowledge base. ">> >>]
    ELSE d

\* analyze_query up to the default decision: the decision after the stable,
\* dynamic and hybrid loops
pre_default(user_input) ==
  LET input_lower   == lower(user_input)
      stable        == category_at(stable_topics, first_match(stable_topics, input_lower))
      dynamic       == category_at(dynamic_topics, first_match(dynamic_topics, input_lower))
      hybrid        == category_at(hybrid_topics, first_match(hybrid_topics, input_lower))
      stable_match  == stable # "none"
      dynamic_match == dynamic # "none"
      d0 == [use_rag |-> FALSE, use_search |-> FALSE,
             rag_query |-> user_input, search_query |-> user_input,
             reasoning |-> << >>]
      d1 == stable_step(d0, stable)
      d2 == dynamic_step(d1, user_input, dynamic)
      d3 == hybrid_step(d2, hybrid, input_lower, stable_match, dynamic_match)
  IN d3

\* SmartSearchDecider.analyze_query; rag_retriever is NoRetriever or the
\* relevance scores that rag_retriever.retrieve(user_input, k=1) returns
analyze_query(user_input, rag_retriever) ==
  default_step(pre_default(user_input), rag_retriever)

(***************************************************************************)
(* Classifier inputs                                                       *)
(***************************************************************************)
W_Explain == <<"E","x","p","l","a","i","n">>
W_amenities == <<"a","m","e","n","i","t","i","e","s">>
W_price == <<"p","r","i","c","e">>
W_Latest == <<"L","a","t","e","s","t">>
W_listings == <<"l","i","s","t","i","n","g","s">>
W_Brickell == <<"B","r","i","c","k","e","l","l">>
W_compare == <<"c","o","m","p","a","r","e">>
W_ROI == <<"R","O","I">>
W_overview == <<"o","v","e","r","v","i","e","w">>
W_homes == <<"h","o","m","e","s">>
W_know == <<"k","n","o","w">>
Q_BuyingProcess == <<"W","h","a","t","'","s"," ","t","h","e"," ","h","o","m","e"," ","b","u","y","i","n","g"," ","p","r","o","c","e","s","s"," ","i","n"," ","M","i","a","m","i","?">>
Q_MortgageRates == <<"C","u","r","r","e","n","t"," ","m","o","r","t","g","a","g","e"," ","r","a","t","e","s"," ","i","n"," ","M","i","a","m","i">>
Q_CompareInvestment == <<"C","o","m","p","a","r","e"," ","B","r","i","c","k","e","l","l"," ","v","s"," ","A","v","e","n","t","u","r","a"," ","f","o","r"," ","i","n","v","e","s","t","m","e","n","t">>
SP == <<" ">>

Vocabulary == {W_Explain, W_amenities, W_price, W_Latest, W_listings, W_Brickell,
               W_compare, W_ROI, W_overview, W_homes, W_know}

\* the queries of test_decision_logic that the scenarios name
ScenarioQueries == {Q_BuyingProcess, Q_MortgageRates, Q_CompareInvestment}

WordLists == UNION {[1..n -> Vocabulary] : n \in 1..MaxWords}

Queries == ScenarioQueries \cup {Join(ws, SP) : ws \in WordLists}

\* rag_retriever: absent, or the relevance scores of its k=1 result
Probes == {NoRetriever, Retriever(<< >>), Retriever(<<7000>>), Retriever(<<7001>>)}

\* the decision variable before analyze_query has returned
NoDecision == [use_rag |-> FALSE, use_search |-> FALSE, rag_query |-> << >>,
               search_query |-> << >>, reasoning |-> << >>]

ClassIdle == query = << >> /\ probe = NoRetriever /\ decision = NoDecision

\* decider.analyze_query(query, probe) is called and returns
Classify ==
  /\ ~returned
  /\ decision' = analyze_query(query, probe)
  /\ returned' = TRUE
  /\ UNCHANGED <<query, probe, contextVars, combineVars, sessionVars>>

(***************************************************************************)
(* RAGRetriever.get_context                                                *)
(***************************************************************************)
TagOpen == <<"[","F","r","o","m"," ">>
TagClose == <<"]","\n">>
UnknownSource == <<"U","n","k","n","o","w","n">>
PartSeparator == <<"\n","\n","-","-","-","\n","\n">>
Src_faq == <<"f","a","q",".","t","x","t">>

\* max_tokens: int = 2000
DefaultMaxTokens == 2000

\* result['metadata'].get('source', 'Unknown'); metadata is modelled by
\* whether it has the key 'source' and the value under it
metadata_source(metadata) ==
  IF metadata.has_source THEN metadata.source ELSE UnknownSource

\* f"[From {source}]\n{content}"
tagged(result) ==
  TagOpen \o metadata_source(result.metadata) \o TagClose \o result.content

\* context_parts without `token_count += content_tokens`
RECURSIVE context_parts_uncounted(_, _, _, _)
context_parts_uncounted(results, i, token_count, budget) ==
  IF i > Len(results) THEN << >>
  ELSE LET content_tokens == Len(results[i].content) \div 4 IN
       IF token_count + content_tokens > budget THEN << >>
       ELSE <<tagged(results[i])>>
            \o context_parts_uncounted(results, i + 1, token_count, budget)

\* context_parts with `continue` in place of `break`: a hit that does not
\* fit is skipped and later hits are still tried
RECURSIVE context_parts_skipping(_, _, _, _)
context_parts_skipping(results, i, token_count, budget) ==
  IF i > Len(results) THEN << >>
  ELSE LET content_tokens == Len(results[i].content) \div 4 IN
       IF token_count + content_tokens > budget
         THEN context_parts_skipping(results, i + 1, token_count, budget)
       ELSE <<tagged(results[i])>>
            \o context_parts_skipping(results, i + 1, token_count + content_tokens, budget)

\* the for loop of get_context from results[i] on, with token_count tokens
\* counted so far: the context_parts it appends
RECURSIVE context_parts(_, _, _, _)
context_parts(results, i, token_count, budget) ==
  IF i > Len(results) THEN << >>
  ELSE LET content_tokens == Len(results[i].content) \div 4 IN
       IF token_count + content_tokens > budget THEN << >>
       ELSE <<tagged(results[i])>>
            \o context_parts(results, i + 1, token_count + content_tokens, budget)

\* RAGRetriever.get_context, given what self.retrieve(query) returns
get_context(results, budget) ==
  IF Len(results) = 0 THEN << >>
  ELSE Join(context_parts(results, 1, 0, budget), PartSeparator)

\* retrieval inputs: hit contents of 3, 4 and 9 characters (0, 1 and 2 tokens)
Content3 == <<"a","b","c">>
Content4 == <<"a","b","c","d">>
Content9 == <<"a","b","c","d","e","f","g","h","i">>
Contents == {Content3, Content4, Content9}

Metadatas == {[has_source |-> TRUE, source |-> Src_faq],
              [has_source |-> FALSE, source |-> << >>]}

HitPool == [content : Contents, metadata : Metadatas, relevance_score : {8333}]

HitLists == UNION {[1..n -> HitPool] : n \in 0..MaxHits}

Budgets == 0..MaxBudget

ContextIdle == hits = << >> /\ max_tokens = 0 /\ context = << >>

\* retriever.get_context(query, max_tokens) is called and returns
Assemble ==
  /\ ~returned
  /\ context' = get_context(hits, max_tokens)
  /\ returned' = TRUE
  /\ UNCHANGED <<hits, max_tokens, classVars, combineVars, sessionVars>>

(***************************************************************************)
(* SmartSearchDecider.combine_contexts                                     *)
(***************************************************************************)
NoInfo == <<"N","o"," ","r","e","l","e","v","a","n","t"," ","i","n","f","o","r","m","a","t","i","o","n"," ","f","o","u","n","d",".">>
HdrBasedOnKB == <<"B","a","s","e","d"," ","o","n"," ","k","n","o","w","l","e","d","g","e"," ","b","a","s","e",":","\n">>
HdrCurrentInfoOnly == <<"C","u","r","r","e","n","t"," ","i","n","f","o","r","m","a","t","i","o","n",":","\n">>
TitleMarket == <<"M","a","r","k","e","t"," ","A","n","a","l","y","s","i","s",":","\n","\n">>
TitleComprehensive == <<"C","o","m","p","r","e","h","e","n","s","i","v","e"," ","I","n","f","o","r","m","a","t","i","o","n",":","\n","\n">>
HdrHistorical == <<"H","i","s","t","o","r","i","c","a","l"," ","C","o","n","t","e","x","t"," ","a","n","d"," ","F","u","n","d","a","m","e","n","t","a","l","s",":","\n">>
HdrCurrentMarket == <<"C","u","r","r","e","n","t"," ","M","a","r","k","e","t"," ","C","o","n","d","i","t","i","o","n","s",":","\n">>
HdrNeighborhood == <<"N","e","i","g","h","b","o","r","h","o","o","d"," ","C","h","a","r","a","c","t","e","r","i","s","t","i","c","s"," ","a","n","d"," ","F","e","a","t","u","r","e","s",":","\n">>
HdrRecentUpdates == <<"R","e","c","e","n","t"," ","U","p","d","a","t","e","s"," ","a","n","d"," ","C","u","r","r","e","n","t"," ","M","a","r","k","e","t",":","\n">>
HdrFromKB == <<"F","r","o","m"," ","K","n","o","w","l","e","d","g","e"," ","B","a","s","e",":","\n">>
HdrCurrentInfo == <<"C","u","r","r","e","n","t"," ","I","n","f","o","r","m","a","t","i","o","n",":","\n">>
BlankLine == <<"\n","\n">>
M_market == <<"m","a","r","k","e","t">>
M_price == <<"p","r","i","c","e">>
M_neighborhood == <<"n","e","i","g","h","b","o","r","h","o","o","d">>

\* combine_contexts without the two single-source returns
combine_contexts_unguarded(rag_context, search_context, qtype) ==
  IF Len(search_context) = 0 /\ Len(rag_context) = 0 THEN NoInfo
  ELSE IF Contains(qtype, M_market) \/ Contains(qtype, M_price)
    THEN TitleMarket \o HdrHistorical \o rag_context
         \o BlankLine \o HdrCurrentMarket \o search_context
  ELSE IF Contains(qtype, M_neighborhood)
    THEN TitleComprehensive \o HdrNeighborhood \o rag_context
         \o BlankLine \o HdrRecentUpdates \o search_context
  ELSE TitleComprehensive \o HdrFromKB \o rag_context
       \o BlankLine \o HdrCurrentInfo \o search_context

\* SmartSearchDecider.combine_contexts
combine_contexts(rag_context, search_context, qtype) ==
  IF Len(search_context) = 0 /\ Len(rag_context) = 0 THEN NoInfo
  ELSE IF Len(search_context) = 0 THEN HdrBasedOnKB \o rag_context
  ELSE IF Len(rag_context) = 0 THEN HdrCurrentInfoOnly \o search_context
  ELSE IF Contains(qtype, M_market) \/ Contains(qtype, M_price)
    THEN TitleMarket \o HdrHistorical \o rag_context
         \o BlankLine \o HdrCurrentMarket \o search_context
  ELSE IF Contains(qtype, M_neighborhood)
    THEN TitleComprehensive \o HdrNeighborhood \o rag_context
         \o BlankLine \o HdrRecentUpdates \o search_context
  ELSE TitleComprehensive \o HdrFromKB \o rag_context
       \o BlankLine \o HdrCurrentInfo \o search_context

(***************************************************************************)
(* RAGRetriever.retrieve and the web search                                *)
(***************************************************************************)
\* k: int = 5
DefaultK == 5

Min(a, b) == IF a < b THEN a ELSE b

\* RAGRetriever.retrieve: store is the outcome of
\* vectorstore.similarity_search_with_score, which raises or returns
\* (doc, score) pairs; scores are distances in hundredths and
\* relevance_score = 1 / (1 + score) is kept in ten-thousandths
retrieve(store, k) ==
  IF store.raises THEN << >>
  ELSE [i \in 1..Min(k, Len(store.results)) |->
          [content         |-> store.results[i].page_content,
           metadata        |-> store.results[i].metadata,
           relevance_score |-> 1000000 \div (100 + store.results[i].score)]]

\* the rag_retriever argument of analyze_query as chat passes it: the
\* relevance scores of rag_retriever.retrieve(user_input, k=1)
probe_of(store) ==
  LET test_results == retrieve(store, 1) IN
  Retriever([i \in 1..Len(test_results) |-> test_results[i].relevance_score])

TitleSep == <<":"," ">>
NL == <<"\n">>

\* SerperSearchTool.search: post is the outcome of requests.post(...),
\* raise_for_status() and response.json(): a decoded body ("json"), a
\* requests.exceptions.RequestException, or any other exception
search_raises(post) == post.kind = "Exception"

search(post) ==
  IF post.kind = "RequestException"
    THEN [error |-> TRUE, has_organic |-> FALSE, organic |-> << >>]
    ELSE [error |-> post.error, has_organic |-> post.has_organic, organic |-> post.organic]

\* ConversationalRealEstateSystem._format_search_results
format_search_results(search_results) ==
  IF search_results.error THEN << >>
  ELSE IF search_results.has_organic
    THEN Join([i \in 1..Min(3, Len(search_results.organic)) |->
                 search_results.organic[i].title \o TitleSep
                 \o search_results.organic[i].snippet], NL)
    ELSE << >>

(***************************************************************************)
(* ConversationalRealEstateSystem                                          *)
(***************************************************************************)
\* "Keep last 20 exchanges"
MemoryCapacity == 20

PromptForInput == "I'm here to help! What would you like to know about real estate?"
Farewell == "Thanks for chatting! Feel free to reach out anytime for real estate help. Have a great day!"
Apology == "I apologize for the technical issue. Let me try to help you with that question again."

K_exit == <<"e","x","i","t">>
K_quit == <<"q","u","i","t">>
K_bye == <<"b","y","e">>
K_goodbye == <<"g","o","o","d","b","y","e">>
ExitKeywords == {K_exit, K_quit, K_bye, K_goodbye}

Whitespace == {" ", "\t", "\n", "\r"}

RECURSIVE lstrip(_)
lstrip(s) ==
  IF Len(s) > 0 /\ s[1] \in Whitespace THEN lstrip(Tail(s)) ELSE s

RECURSIVE rstrip(_)
rstrip(s) ==
  IF Len(s) > 0 /\ s[Len(s)] \in Whitespace THEN rstrip(SubSeq(s, 1, Len(s) - 1)) ELSE s

\* strip that leaves the string as it is
strip_none(s) == s

\* str.strip()
strip(s) == rstrip(lstrip(s))

\* self.json_context = {}
EmptyContext == [has_location |-> FALSE, location |-> << >>]

\* the session file before the first save
NoFile == [state |-> "absent", conversation_memory |-> << >>, json_context |-> EmptyContext]

\* self.conversation_memory.append({...}) of _add_to_memory; now is time.time()
memory_append(memory, user_msg, agent_response, sources_used, now) ==
  Append(memory, [user      |-> user_msg,
                  agent     |-> agent_response,
                  timestamp |-> now,
                  sources   |-> sources_used])

\* "Keep last 20 exchanges": the trimming statement of _add_to_memory
memory_trim(memory) ==
  IF Len(memory) > MemoryCapacity
    THEN SubSeq(memory, Len(memory) - MemoryCapacity + 1, Len(memory))
    ELSE memory

\* _add_to_memory trimming to the first 20 exchanges instead of the last 20
add_to_memory_oldest(memory, user_msg, agent_response, sources_used, now) ==
  LET grown == Append(memory, [user      |-> user_msg,
                               agent     |-> agent_response,
                               timestamp |-> now,
                               sources   |-> sources_used])
  IN IF Len(grown) > MemoryCapacity
       THEN SubSeq(grown, 1, MemoryCapacity)
       ELSE grown

\* _add_to_memory appending the exchange twice
add_to_memory_twice(memory, user_msg, agent_response, sources_used, now) ==
  LET entry == [user      |-> user_msg,
                agent     |-> agent_response,
                timestamp |-> now,
                sources   |-> sources_used]
      grown == Append(Append(memory, entry), entry)
  IN IF Len(grown) > MemoryCapacity
       THEN SubSeq(grown, Len(grown) - MemoryCapacity + 1, Len(grown))
       ELSE grown

\* ConversationalRealEstateSystem._add_to_memory; now is time.time()
add_to_memory(memory, user_msg, agent_response, sources_used, now) ==
  memory_trim(memory_append(memory, user_msg, agent_response, sources_used, now))

\* ConversationalRealEstateSystem._auto_save: the content of the session
\* file afterwards. io is the outcome of open(..., 'w') and json.dump:
\* "ok", "open_fails" (the file is left as it was) or "dump_fails" (the file
\* was truncated by open and holds what was written before the failure)
auto_save(file, memory, ctx, io) ==
  IF io = "ok"
    THEN [state |-> "complete", conversation_memory |-> memory, json_context |-> ctx]
  ELSE IF io = "dump_fails"
    THEN [state |-> "partial", conversation_memory |-> << >>, json_context |-> EmptyContext]
  ELSE file

\* save_data without the context map
save_data_memory_only(memory, ctx) == [conversation_memory |-> memory, json_context |-> EmptyContext]

\* save_data of _auto_save without its timestamp: what the call captures
save_data_of(memory, ctx) == [conversation_memory |-> memory, json_context |-> ctx]

\* the exception that open() or json.dump raises for an outcome of the write
save_error(io) ==
  IF io = "open_fails" THEN "OSError"
  ELSE IF io = "dump_fails" THEN "TypeError"
  ELSE "none"

\* ', '.join(sources_used)
join_sources(sources_used) ==
  Join([i \in 1..Len(sources_used) |-> <<sources_used[i]>>], <<", ">>)

\* augmented_query without the `not in search_query` test
augmented_query_always(search_query, ctx) ==
  IF ctx.has_location /\ Len(ctx.location) > 0
    THEN search_query \o <<" ">> \o ctx.location
    ELSE search_query

\* the search query chat dispatches: the location is appended when it is
\* set and is not already a substring
augmented_query(search_query, ctx) ==
  IF ctx.has_location /\ Len(ctx.location) > 0 /\ ~Contains(search_query, ctx.location)
    THEN search_query \o <<" ">> \o ctx.location
    ELSE search_query

(***************************************************************************)
(* Session inputs                                                          *)
(***************************************************************************)
Loc_FL == <<"F","L">>
In_Empty == <<>>
In_Blank == <<" "," ">>
In_Bye == <<" ","B","y","e"," ">>
In_Price == <<"p","r","i","c","e"," ","F","L">>
In_Hi == <<"h","i"," ">>
In_ROI == <<"R","O","I">>
T_Title == <<"R","a","t","e","s">>
T_Snippet == <<"6",".","5","%">>

Inputs == {In_Empty, In_Blank, In_Bye, In_Price, In_Hi, In_ROI}

DocA == [page_content |-> Content4,
         metadata |-> [has_source |-> TRUE, source |-> Src_faq], score |-> 20]
DocB == [page_content |-> Content9,
         metadata |-> [has_source |-> FALSE, source |-> << >>], score |-> 150]

\* outcomes of vectorstore.similarity_search_with_score: it raises, or
\* returns the two documents nearest to the query
Stores == {[raises |-> TRUE, results |-> << >>],
           [raises |-> FALSE, results |-> <<DocA, DocB>>]}

JsonBody(has_organic, organic) ==
  [kind |-> "json", error |-> FALSE, has_organic |-> has_organic, organic |-> organic]

\* outcomes of the HTTP request of the web search
Posts == {JsonBody(TRUE, <<[title |-> T_Title, snippet |-> T_Snippet]>>),
          JsonBody(FALSE, << >>),
          [kind |-> "RequestException", error |-> FALSE, has_organic |-> FALSE, organic |-> << >>],
          [kind |-> "Exception", error |-> FALSE, has_organic |-> FALSE, organic |-> << >>]}

\* outcomes of real_estate_model.generate_content(prompt) and response.text
Llms == {[raises |-> "none", text |-> "Here is what I found."],
         [raises |-> "Exception", text |-> ""]}

SaveOutcomes == {"ok", "open_fails", "dump_fails"}

\* values of 'location' in the context map; the empty string is falsy
Loc_Empty == << >>
Locations == {Loc_FL, Loc_Empty}

\* analyze_query as chat calls it, tabulated once for the session inputs
SessionDecisions ==
  {[user_input |-> strip(xs[1]), store |-> xs[2],
    decision |-> analyze_query(strip(xs[1]), probe_of(xs[2]))] : xs \in Inputs \X Stores}

\* self.search_decider.analyze_query(user_input, self.rag_retriever)
session_decision(user_input, store) ==
  IF \E t \in SessionDecisions : t.user_input = user_input /\ t.store = store
    THEN (CHOOSE t \in SessionDecisions :
            t.user_input = user_input /\ t.store = store).decision
    ELSE analyze_query(user_input, probe_of(store))

\* the reasoning analyze_query returns when it has called rag_retriever.retrieve
ProbedReasonings == {<< <<"RAG: High relevance content found. ">> >>,
                     << <<"Default: Checking knowledge base first. ">> >>}

\* sources_used labelling the knowledge base whatever it returned
sources_used_of_selected(rag_context, search_context) ==
  <<"Knowledge Base">>
  \o (IF Len(search_context) > 0 THEN <<"Current Web Data">> ELSE << >>)

\* sources_used as chat builds it: a label is appended after each source
\* that returned a non-empty context
sources_used_of(rag_context, search_context) ==
  (IF Len(rag_context) > 0 THEN <<"Knowledge Base">> ELSE << >>)
  \o (IF Len(search_context) > 0 THEN <<"Current Web Data">> ELSE << >>)

\* a collaborator call made during a turn and how it ended: "ok", "none"
\* (nothing raised), "json" (a decoded body) or the class of the exception
Call(fn, outcome) == [fn |-> fn, outcome |-> outcome]

\* the try block of chat for a non-empty, non-exit user_input after
\* analyze_query returned d: what it computes, which collaborators it calls
\* and whether an exception leaves it
chat_try(d, ctx, user_input, store, post, llm) ==
  LET input_lower   == lower(user_input)
      probed        == d.reasoning \in ProbedReasonings
      rag_context   == IF d.use_rag
                         THEN get_context(retrieve(store, DefaultK), DefaultMaxTokens)
                         ELSE << >>
      search_query  == augmented_query(d.search_query, ctx)
      search_failed == d.use_search /\ search_raises(post)
      search_context == IF d.use_search /\ ~search_failed
                          THEN format_search_results(search(post))
                          ELSE << >>
      sources_used  == sources_used_of(rag_context, search_context)
      combined_context == IF search_failed THEN << >>
                          ELSE combine_contexts(rag_context, search_context, input_lower)
      generated     == ~search_failed
      exception     == IF search_failed THEN post.kind
                       ELSE IF llm.raises # "none" THEN llm.raises
                       ELSE "none"
      store_outcome == IF store.raises THEN "Exception" ELSE "ok"
      calls         == (IF probed THEN <<Call("probe", store_outcome)>> ELSE << >>)
                       \o (IF d.use_rag THEN <<Call("retrieve", store_outcome)>> ELSE << >>)
                       \o (IF d.use_search THEN <<Call("search", post.kind)>> ELSE << >>)
                       \o (IF generated THEN <<Call("generate", llm.raises)>> ELSE << >>)
  IN [decision |-> d, rag_context |-> rag_context, search_query |-> search_query,
      search_context |-> search_context, sources_used |-> sources_used,
      combined_context |-> combined_context, calls |-> calls,
      exception |-> exception,
      agent_response |-> llm.text]

\* the try block entered with the decision of analyze_query
chat_body(memory, ctx, user_input, store, post, llm) ==
  chat_try(session_decision(user_input, store), ctx, user_input, store, post, llm)

\* an except clause that catches requests.exceptions.RequestException only
except_RequestException(exception) ==
  exception \in {"RequestException"}

\* the exception classes `except Exception` catches (KeyboardInterrupt and
\* SystemExit are BaseException, not Exception)
except_Exception(exception) ==
  exception \in {"Exception", "RequestException", "ValueError", "OSError", "TypeError"}

\* an except clause that catches OSError only
auto_save_except_OSError(exception) ==
  exception \in {"OSError"}

\* `except Exception: pass` of _auto_save
auto_save_except(exception) ==
  except_Exception(exception)

\* the exception that leaves _auto_save, "none" when it returns
auto_save_raises(io) ==
  IF save_error(io) # "none" /\ ~auto_save_except(save_error(io))
    THEN save_error(io)
    ELSE "none"

\* the exit-command test with the comparison made on the input as typed
is_exit_command_exact(user_input) ==
  user_input \in ExitKeywords

\* user_input.lower() in ['exit', 'quit', 'bye', 'goodbye']
is_exit_command(user_input) ==
  lower(user_input) \in ExitKeywords

\* what ConversationalRealEstateSystem.chat leaves behind, body being the
\* outcome of its try block: the reply (or the exception raised to the
\* caller), the collaborator calls made, the memory and the session file
chat_return(memory, ctx, file, user_input, body, io, now) ==
  LET nothing == [rag_context |-> << >>, search_query |-> << >>,
                  search_context |-> << >>, sources_used |-> << >>,
                  combined_context |-> << >>, decision |-> NoDecision]
      details == [rag_context |-> body.rag_context,
                  search_query |-> body.search_query,
                  search_context |-> body.search_context,
                  sources_used |-> body.sources_used,
                  combined_context |-> body.combined_context,
                  decision |-> body.decision]
  IN IF Len(user_input) = 0
       THEN [path |-> "empty", input |-> user_input, reply |-> PromptForInput,
             raised |-> "none", calls |-> << >>, details |-> nothing,
             memory |-> memory, file |-> file]
     ELSE IF is_exit_command(user_input)
       THEN IF auto_save_raises(io) = "none"
              THEN [path |-> "exit", input |-> user_input, reply |-> Farewell,
                    raised |-> "none", calls |-> <<Call("save", io)>>, details |-> nothing,
                    memory |-> memory, file |-> auto_save(file, memory, ctx, io)]
              ELSE [path |-> "raised", input |-> user_input, reply |-> "",
                    raised |-> auto_save_raises(io), calls |-> <<Call("save", io)>>,
                    details |-> nothing,
                    memory |-> memory, file |-> auto_save(file, memory, ctx, io)]
     ELSE IF body.exception = "none"
       THEN [path |-> "answered", input |-> user_input, reply |-> body.agent_response,
             raised |-> "none", calls |-> body.calls, details |-> details,
             memory |-> add_to_memory(memory, user_input, body.agent_response,
                                      join_sources(body.sources_used), now),
             file |-> file]
     ELSE IF except_Exception(body.exception)
       THEN [path |-> "error", input |-> user_input, reply |-> Apology,
             raised |-> "none", calls |-> body.calls, details |-> details,
             memory |-> memory, file |-> file]
     ELSE [path |-> "raised", input |-> user_input, reply |-> "",
           raised |-> body.exception, calls |-> body.calls, details |-> details,
           memory |-> memory, file |-> file]

\* ConversationalRealEstateSystem.chat
chat(memory, ctx, file, raw_input, store, post, llm, io, now) ==
  chat_return(memory, ctx, file, strip(raw_input),
              chat_body(memory, ctx, strip(raw_input), store, post, llm), io, now)

NoTurn == [path |-> "none", input |-> << >>, reply |-> "", raised |-> "none",
           calls |-> << >>,
           raw_input |-> << >>,
           details |-> [rag_context |-> << >>, search_query |-> << >>,
                        search_context |-> << >>, sources_used |-> << >>,
                        combined_context |-> << >>, decision |-> NoDecision]]

\* no _auto_save call yet
NoSave == [by |-> "none", io |-> "none", save_data |-> save_data_of(<< >>, EmptyContext)]

\* an _auto_save call: who called it, how the write ended, what it captured
SaveCall(by, io, memory, ctx) ==
  [by |-> by, io |-> io, save_data |-> save_data_of(memory, ctx)]

SessionIdle ==
  /\ conversation_memory = << >>
  /\ json_context = EmptyContext
  /\ session_file = NoFile
  /\ appended = 0
  /\ turn = NoTurn
  /\ process = "running"
  /\ last_save = NoSave

CombineIdle ==
  rag_text = << >> /\ search_text = << >> /\ query_type = << >> /\ combined = << >>

(***************************************************************************)
(* Session actions                                                         *)
(***************************************************************************)
\* whether chat(raw_input) goes past its two early returns
is_question(raw_input) ==
  Len(strip(raw_input)) > 0 /\ lower(strip(raw_input)) \notin ExitKeywords

\* whether chat(raw_input) takes the exit-command return
is_goodbye(raw_input) ==
  Len(strip(raw_input)) > 0 /\ lower(strip(raw_input)) \in ExitKeywords

\* the outcomes to try for a collaborator: all of them when the turn can
\* reach it, a single one otherwise
OutcomesFor(reachable, outcomes) ==
  IF reachable THEN outcomes ELSE {CHOOSE o \in outcomes : TRUE}

\* the turn called the collaborator fn
Called(t, fn) == \E i \in 1..Len(t.calls) : t.calls[i].fn = fn

\* the state after a call of agent.chat returned r; at most `limit`
\* exchanges are recorded
Returns(r, raw_input, limit) ==
  /\ r.path = "answered" => appended < limit
  /\ turn' = [path |-> r.path, input |-> r.input, reply |-> r.reply,
              raised |-> r.raised, calls |-> r.calls, details |-> r.details,
              raw_input |-> raw_input]
  /\ conversation_memory' = r.memory
  /\ session_file' = r.file
  /\ appended' = IF r.path = "answered" THEN appended + 1 ELSE appended
  /\ last_save' = IF Called(r, "save")
                    THEN SaveCall("chat", r.calls[1].outcome, conversation_memory, json_context)
                    ELSE last_save

\* agent.chat(raw_input) is called and returns, with the collaborators
\* behaving as chosen (the vector store behaves the same for every call of
\* one turn)
ChatWith(limit, inputs, stores, posts, llms, ios) ==
  /\ \E raw_input \in inputs :
     \E store \in OutcomesFor(is_question(raw_input), stores),
        post \in OutcomesFor(is_question(raw_input), posts),
        llm \in OutcomesFor(is_question(raw_input), llms),
        io \in OutcomesFor(is_goodbye(raw_input), ios) :
       Returns(chat(conversation_memory, json_context, session_file, raw_input,
                    store, post, llm, io, appended + 1), raw_input, limit)
  /\ UNCHANGED <<json_context, process, returned, classVars, contextVars, combineVars>>

Chat == ChatWith(MaxExchanges, Inputs, Stores, Posts, Llms, {"ok"})

\* agent.update_property_context({"location": location})
UpdatePropertyContext ==
  /\ process = "running"
  /\ \E location \in Locations :
       json_context' = [has_location |-> TRUE, location |-> location]
  /\ UNCHANGED <<conversation_memory, session_file, appended, turn, returned,
                 process, last_save,
                 classVars, contextVars, combineVars>>

\* a long session: every turn asks the same question or says goodbye
LongChat ==
  ChatWith(MaxAppends, {In_ROI, In_Bye}, {[raises |-> FALSE, results |-> <<DocA, DocB>>]},
           {JsonBody(TRUE, <<[title |-> T_Title, snippet |-> T_Snippet]>>)}, Llms, {"ok"})

\* what the user types at the prompt of main
TypedInputs == {In_Blank, In_Bye, In_ROI}

\* the state after agent.chat(user_input) returned r to the loop of main: the
\* loop breaks, and main returns, after an exit command unless chat raised
MainReturns(r, user_input) ==
  /\ Returns(r, user_input, MaxExchanges)
  /\ process' = IF r.raised = "none" /\ is_exit_command(user_input)
                  THEN "exiting"
                  ELSE process

\* one iteration of the `while True` loop of main: input().strip(), `continue`
\* on an empty line, agent.chat(user_input), `break` on an exit command
MainLoop ==
  /\ process = "running"
  /\ \E raw_input \in TypedInputs :
     \E store \in OutcomesFor(is_question(raw_input), Stores),
        post \in OutcomesFor(is_question(raw_input), Posts),
        llm \in OutcomesFor(is_question(raw_input), Llms),
        io \in OutcomesFor(is_goodbye(raw_input), SaveOutcomes) :
       IF Len(strip(raw_input)) = 0
         THEN UNCHANGED <<conversation_memory, session_file, appended, turn,
                          process, last_save>>
         ELSE MainReturns(chat(conversation_memory, json_context, session_file,
                               strip(raw_input), store, post, llm, io, appended + 1),
                          strip(raw_input))
  /\ UNCHANGED <<json_context, returned, classVars, contextVars, combineVars>>

\* SIGINT or SIGTERM arrives while main runs, between two turns or inside
\* _add_to_memory between its two statements (Python runs a signal handler
\* between two bytecodes of the main thread): _handle_exit calls _auto_save
\* and then sys.exit(0); SystemExit passes every `except Exception` of chat
\* and of main, so the statement that was next never runs, while an
\* exception leaving _auto_save is caught there and main goes on
HandleExit ==
  /\ process \in {"running", "appending"}
  /\ \E io \in SaveOutcomes :
       /\ last_save' = SaveCall("signal", io, conversation_memory, json_context)
       /\ session_file' = auto_save(session_file, conversation_memory, json_context, io)
       /\ process' = IF auto_save_raises(io) = "none" THEN "exiting" ELSE "running"
  /\ UNCHANGED <<conversation_memory, json_context, appended, turn, returned,
                 classVars, contextVars, combineVars>>

\* the state when agent.chat(user_input), having got the reply r.reply, has
\* run the append statement of _add_to_memory and not yet the trimming one
Appends(r, raw_input) ==
  /\ r.path = "answered"
  /\ appended < MaxAppends
  /\ conversation_memory' =
       memory_append(conversation_memory, r.input, r.reply,
                     join_sources(r.details.sources_used), appended + 1)
  /\ appended' = appended + 1
  /\ turn' = [path |-> "appending", input |-> r.input, reply |-> r.reply,
              raised |-> r.raised, calls |-> r.calls, details |-> r.details,
              raw_input |-> raw_input]
  /\ process' = "appending"

\* a turn of a long session up to the append statement of _add_to_memory
BeginAppend ==
  /\ process = "running"
  /\ \E llm \in Llms :
       Appends(chat(conversation_memory, json_context, session_file, In_ROI,
                    [raises |-> FALSE, results |-> <<DocA, DocB>>],
                    JsonBody(TRUE, <<[title |-> T_Title, snippet |-> T_Snippet]>>),
                    llm, "ok", appended + 1), In_ROI)
  /\ UNCHANGED <<json_context, session_file, last_save, returned,
                 classVars, contextVars, combineVars>>

\* the trimming statement of _add_to_memory runs and chat returns the reply
EndAppend ==
  /\ process = "appending"
  /\ conversation_memory' = memory_trim(conversation_memory)
  /\ turn' = [turn EXCEPT !.path = "answered"]
  /\ process' = "running"
  /\ UNCHANGED <<json_context, session_file, appended, last_save, returned,
                 classVars, contextVars, combineVars>>

\* interpreter exit: the _auto_save registered with atexit runs; atexit
\* reports an exception of a callback and goes on, and the process ends
AtExit ==
  /\ process = "exiting"
  /\ \E io \in SaveOutcomes :
       /\ last_save' = SaveCall("atexit", io, conversation_memory, json_context)
       /\ session_file' = auto_save(session_file, conversation_memory, json_context, io)
  /\ process' = "terminated"
  /\ UNCHANGED <<conversation_memory, json_context, appended, turn, returned,
                 classVars, contextVars, combineVars>>

\* combine_contexts(rag_text, search_text, query_type) is called and returns
Combine ==
  /\ ~returned
  /\ combined' = combine_contexts(rag_text, search_text, query_type)
  /\ returned' = TRUE
  /\ UNCHANGED <<rag_text, search_text, query_type, classVars, contextVars, sessionVars>>

RagTexts == {get_context(hl, DefaultMaxTokens) : hl \in HitLists}

SearchTexts == {format_search_results(search(p)) : p \in Posts}
                 \cup {T_Title \o TitleSep \o T_Snippet \o NL \o T_Title \o TitleSep}

TopicHints == {lower(strip(i)) : i \in Inputs} \cup {M_market, M_neighborhood}

(***************************************************************************)
(* Specifications                                                          *)
(***************************************************************************)
Init ==
  /\ SessionIdle /\ ClassIdle /\ ContextIdle /\ CombineIdle
  /\ returned = FALSE

Next == Chat \/ UpdatePropertyContext

Spec == Init /\ [][Next]_vars

NextMemory == LongChat

SpecMemory == Init /\ [][NextMemory]_vars

NextLifecycle == MainLoop \/ UpdatePropertyContext \/ HandleExit \/ AtExit

SpecLifecycle == Init /\ [][NextLifecycle]_vars

NextInterrupt == BeginAppend \/ EndAppend \/ HandleExit \/ AtExit

SpecInterrupt == Init /\ [][NextInterrupt]_vars

InitClassify ==
  /\ query \in Queries /\ probe \in Probes /\ decision = NoDecision
  /\ returned = FALSE
  /\ ContextIdle /\ CombineIdle /\ SessionIdle

NextClassify == Classify

SpecClassify == InitClassify /\ [][NextClassify]_vars

InitContext ==
  /\ hits \in HitLists /\ max_tokens \in Budgets /\ context = << >>
  /\ returned = FALSE
  /\ ClassIdle /\ CombineIdle /\ SessionIdle

NextContext == Assemble

SpecContext == InitContext /\ [][NextContext]_vars

InitCombine ==
  /\ rag_text \in RagTexts /\ search_text \in SearchTexts
  /\ query_type \in TopicHints /\ combined = << >>
  /\ returned = FALSE
  /\ ClassIdle /\ ContextIdle /\ SessionIdle

NextCombine == Combine

SpecCombine == InitCombine /\ [][NextCombine]_vars

(***************************************************************************)
(* Properties of the classifier (checked under SpecClassify)               *)
(***************************************************************************)
\* the query contains a keyword of some category of the table
HitsTable(table, q) ==
  LET ql == lower(q)
  IN \E i \in 1..Len(table) : \E k \in 1..Len(table[i].keywords) :
       Contains(ql, table[i].keywords[k])

\* the query contains a keyword of the named category of the table
HitsCategory(table, category, q) ==
  LET ql == lower(q)
  IN \E i \in 1..Len(table) :
       /\ table[i].category = category
       /\ \E k \in 1..Len(table[i].keywords) : Contains(ql, table[i].keywords[k])

\* investment is the first hybrid category with a keyword in the query
InvestmentFirst(q) ==
  /\ HitsCategory(hybrid_topics, "investment", q)
  /\ ~HitsCategory(hybrid_topics, "neighborhoods", q)
  /\ ~HitsCategory(hybrid_topics, "comparison", q)

StableOnly(q) == HitsTable(stable_topics, q) /\ ~HitsTable(dynamic_topics, q)

ComparisonClause == <<"Both: Static features + current differences. ">>
InvestmentClause == <<"Both: Investment strategies + current yields. ">>

Clauses(d) == {d.reasoning[i] : i \in 1..Len(d.reasoning)}

\* C1 as stated: a query with a stable keyword and no dynamic keyword is
\* classified knowledge base only, whatever hybrid keywords it contains.
C1_Original ==
  (returned /\ StableOnly(query)) => (decision.use_rag /\ ~decision.use_search)

\* C1 (amended): a query with a stable keyword and no dynamic keyword is
\* classified with use_rag true, and with use_search true exactly when
\* investment is the first hybrid category that has a keyword in the query.
C1_Amended ==
  (returned /\ StableOnly(query)) =>
    /\ decision.use_rag
    /\ decision.use_search <=> InvestmentFirst(query)

C1_Witness ==
  /\ returned /\ StableOnly(query) /\ InvestmentFirst(query)
  /\ decision.use_rag /\ decision.use_search

\* C2: a query with no stable and no dynamic keyword that has a neighborhood
\* name, a comparison keyword and an investment keyword is classified with
\* both sources on, the comparison rule and the investment rule both firing.
C2_Claim ==
  ( /\ returned
    /\ ~HitsTable(stable_topics, query) /\ ~HitsTable(dynamic_topics, query)
    /\ HitsCategory(hybrid_topics, "neighborhoods", query)
    /\ HitsCategory(hybrid_topics, "comparison", query)
    /\ HitsCategory(hybrid_topics, "investment", query) )
  => /\ decision.use_rag /\ decision.use_search
     /\ ComparisonClause \in Clauses(decision)
     /\ InvestmentClause \in Clauses(decision)

\* C3: every query with an investment keyword is classified with both
\* sources on, whatever other keywords it contains.
C3_Claim ==
  (returned /\ HitsCategory(hybrid_topics, "investment", query))
  => (decision.use_rag /\ decision.use_search)

\* the fallback applies: no stable, dynamic or hybrid rule has set a flag
NoRuleSetsFlag(q) ==
  LET d == pre_default(q) IN ~d.use_rag /\ ~d.use_search

\* the rationale of each fallback case
FallbackReasoning(r) ==
  IF ~r.present THEN << <<"Default: General query, checking knowledge base. ">> >>
  ELSE IF r.results # << >> /\ r.results[1] > RelevanceThreshold
    THEN << <<"RAG: High relevance content found. ">> >>
  ELSE << <<"Default: Checking knowledge base first. ">> >>

RECURSIVE ContentTokens(_, _)
ContentTokens(results, n) ==
  IF n = 0 THEN 0
  ELSE ContentTokens(results, n - 1) + (Len(results[n].content) \div 4)

\* the string built from the first n hits
PrefixContext(results, n) ==
  Join([i \in 1..n |-> tagged(results[i])], PartSeparator)

\* C4 as stated: the length of the returned string divided by 4 never
\* exceeds the budget, and a first hit larger than the budget gives "".
C4_Original ==
  returned =>
    /\ Len(context) \div 4 <= max_tokens
    /\ (Len(hits) > 0 /\ Len(hits[1].content) \div 4 > max_tokens) => context = << >>

\* C4 (amended): the returned string is built from a prefix of the hits
\* whose content token counts (len(content) // 4 each, tags and separators
\* not counted) sum to at most the budget; a first hit whose content token
\* count exceeds the budget gives the empty string.
C4_Amended ==
  returned =>
    /\ \E n \in 0..Len(hits) :
         /\ context = PrefixContext(hits, n)
         /\ ContentTokens(hits, n) <= max_tokens
    /\ (Len(hits) > 0 /\ Len(hits[1].content) \div 4 > max_tokens) => context = << >>

C4_Witness ==
  /\ returned /\ Len(hits) = 2
  /\ context = tagged(hits[1])
  /\ ContentTokens(hits, 1) <= max_tokens
  /\ Len(context) \div 4 > max_tokens

(***************************************************************************)
(* Properties of the conversation memory (checked under SpecMemory)        *)
(***************************************************************************)
\* C5: after any number n of appends the memory holds at most 20
\* exchanges, namely the most recent min(n, 20) of them in the order in
\* which they were appended (the k-th appended exchange has timestamp k).
C5_Theorem ==
  /\ Len(conversation_memory) <= 20
  /\ Len(conversation_memory) = Min(appended, 20)
  /\ \A i \in 1..Len(conversation_memory) :
       conversation_memory[i].timestamp = appended - Len(conversation_memory) + i

C5_Witness ==
  /\ appended = 25
  /\ Len(conversation_memory) = 20
  /\ conversation_memory[1].timestamp = 6
  /\ conversation_memory[20].timestamp = 25

(***************************************************************************)
(* Properties of a turn (checked under Spec)                               *)
(***************************************************************************)
\* the turn called the collaborator fn and the call ended with that outcome
CalledWith(t, fn, outcomes) ==
  \E i \in 1..Len(t.calls) : t.calls[i].fn = fn /\ t.calls[i].outcome \in outcomes

Failures == {"Exception", "RequestException"}

\* the replies a language model call can return
ModelReplies == {llm.text : llm \in {l \in Llms : l.raises = "none"}}

\* C6: every turn returns a reply string and raises nothing to its
\* caller, whatever the collaborators do; when the language-model call
\* fails the reply is the fixed apology.
C6_Theorem ==
  turn.path # "none" =>
    /\ turn.raised = "none"
    /\ turn.reply \in {PromptForInput, Farewell, Apology} \cup ModelReplies
    /\ CalledWith(turn, "generate", Failures) => turn.reply = Apology

C6_Witness ==
  /\ CalledWith(turn, "generate", Failures)
  /\ CalledWith(turn, "search", {"RequestException"})
  /\ turn.raised = "none"
  /\ turn.reply = Apology

\* C7: when the retriever or the web search fails during a turn (any
\* exception or an error result), that source's context is empty, the
\* language model is still called and, when it answers, the turn returns
\* its reply and not the apology.
C7_Claim ==
  (CalledWith(turn, "retrieve", Failures) \/ CalledWith(turn, "search", Failures)) =>
    /\ CalledWith(turn, "retrieve", Failures) => turn.details.rag_context = << >>
    /\ CalledWith(turn, "search", Failures) => turn.details.search_context = << >>
    /\ Called(turn, "generate")
    /\ CalledWith(turn, "generate", {"none"}) => turn.reply \in ModelReplies

\* every character of s is whitespace: s is empty after trimming
IsBlank(s) == \A i \in 1..Len(s) : s[i] \in Whitespace

\* C10: a turn whose input is empty after trimming returns the fixed
\* prompt-for-input reply, calls no collaborator and takes no snapshot, and
\* leaves the conversation memory (and the session file) as they were.
C10_Theorem ==
  [][ (turn'.path # "none" /\ IsBlank(turn'.raw_input) /\ json_context' = json_context) =>
        /\ turn'.reply = PromptForInput
        /\ turn'.calls = << >>
        /\ conversation_memory' = conversation_memory
        /\ session_file' = session_file
        /\ appended' = appended ]_vars

C10_Witness ==
  /\ turn.path # "none" /\ IsBlank(turn.raw_input) /\ Len(turn.raw_input) > 0
  /\ turn.reply = PromptForInput /\ turn.calls = << >>
  /\ Len(conversation_memory) = 1
  /\ session_file.state = "complete"

(***************************************************************************)
(* Properties of the context combiner (checked under SpecCombine)          *)
(***************************************************************************)
\* the headers that introduce knowledge-base text and web text
KnowledgeHeaders == {HdrBasedOnKB, HdrHistorical, HdrNeighborhood, HdrFromKB}
WebHeaders == {HdrCurrentInfoOnly, HdrCurrentMarket, HdrRecentUpdates, HdrCurrentInfo}

\* header h occurs in s with nothing, or an empty line, after it
EmptyBodyAfter(h, s) ==
  \E i \in 0..(Len(s) - Len(h)) :
    /\ SubSeq(s, i + 1, i + Len(h)) = h
    /\ (i + Len(h) = Len(s) \/ s[i + Len(h) + 1] = "\n")

\* C8: with both texts empty the result is the no-information sentinel;
\* with exactly one text empty the result contains the other text and none of
\* the empty source's headers; no header is ever followed by an empty body.
C8_Theorem ==
  returned =>
    /\ (rag_text = << >> /\ search_text = << >>) => combined = NoInfo
    /\ (rag_text # << >> /\ search_text = << >>) =>
         /\ Contains(combined, rag_text)
         /\ \A h \in WebHeaders : ~Contains(combined, h)
    /\ (rag_text = << >> /\ search_text # << >>) =>
         /\ Contains(combined, search_text)
         /\ \A h \in KnowledgeHeaders : ~Contains(combined, h)
    /\ \A h \in KnowledgeHeaders \cup WebHeaders : ~EmptyBodyAfter(h, combined)

C8_Witness ==
  /\ returned
  /\ rag_text # << >> /\ search_text = << >>
  /\ Contains(query_type, M_price)
  /\ Contains(combined, rag_text)
  /\ \E h \in KnowledgeHeaders : Contains(combined, h)

(***************************************************************************)
(* Properties of the exit command and of the snapshot (checked under Spec  *)
(* and SpecLifecycle)                                                      *)
(***************************************************************************)
\* the input is an exit keyword, in any letter case, once trimmed
IsExitInput(s) == lower(strip(s)) \in {K_exit, K_quit, K_bye, K_goodbye}

\* C11: a turn whose trimmed input is an exit keyword in any letter case
\* takes a snapshot and returns the fixed farewell, and calls neither the
\* classifier nor the retriever, the web search or the language model.
C11_Theorem ==
  (turn.path # "none" /\ IsExitInput(turn.raw_input)) =>
    /\ turn.reply = Farewell
    /\ Len(turn.calls) = 1 /\ turn.calls[1].fn = "save"
    /\ \A fn \in {"probe", "retrieve", "search", "generate"} : ~Called(turn, fn)
    /\ turn.details.decision = NoDecision
    /\ last_save.by = "chat"

C11_Witness ==
  /\ turn.raw_input = In_Bye
  /\ turn.reply = Farewell
  /\ turn.calls = <<Call("save", "ok")>>
  /\ session_file.state = "complete"
  /\ Len(session_file.conversation_memory) = 1

\* C12: a snapshot write that fails at open or during serialization
\* never propagates: the exit-keyword turn still returns the farewell (and
\* main goes on to exit), a signal still leads to interpreter exit, the
\* interpreter exit still ends the process, and the failed save leaves the
\* conversation memory and the context map as they were.
C12_Theorem ==
  [][ (last_save' # last_save /\ last_save'.io # "ok") =>
        /\ conversation_memory' = conversation_memory
        /\ json_context' = json_context
        /\ last_save'.by = "chat" =>
             (turn'.reply = Farewell /\ turn'.raised = "none" /\ process' = "exiting")
        /\ last_save'.by = "signal" => process' = "exiting"
        /\ last_save'.by = "atexit" => process' = "terminated" ]_vars

C12_Witness ==
  /\ last_save.by = "chat" /\ last_save.io = "dump_fails"
  /\ turn.reply = Farewell /\ turn.raised = "none"
  /\ process = "exiting"
  /\ Len(conversation_memory) = 1
  /\ json_context.has_location

\* C14: every save leaves the session file either as it was or holding the
\* complete new snapshot, also when the write fails part-way.
C14_Claim ==
  [][ \/ session_file' = session_file
      \/ session_file' = [state |-> "complete",
                          conversation_memory |-> conversation_memory',
                          json_context |-> json_context'] ]_vars

\* C15: when the process has left the loop of main (exit command or
\* signal) a save has been attempted, and when it has terminated the last
\* save attempted is the one of interpreter exit and it captured the
\* conversation memory and the context map as they are at termination.
C15_Theorem ==
  /\ process # "running" => last_save.by \in {"chat", "signal", "atexit"}
  /\ process = "terminated" =>
       /\ last_save.by = "atexit"
       /\ last_save.save_data.conversation_memory = conversation_memory
       /\ last_save.save_data.json_context = json_context

C15_Witness ==
  /\ process = "terminated"
  /\ Len(conversation_memory) = 1
  /\ json_context.has_location
  /\ last_save.by = "atexit"
  /\ last_save.save_data.conversation_memory = conversation_memory
  /\ last_save.save_data.json_context = json_context
  /\ turn.reply # Farewell

(***************************************************************************)
(* Properties of the keyword tables (checked under SpecClassify)           *)
(***************************************************************************)
\* the i-th category of the table has a keyword in the lowercased query
HitsAt(table, i, ql) ==
  \E k \in 1..Len(table[i].keywords) : Contains(ql, table[i].keywords[k])

\* the first category of the table, in definition order, that has a keyword
\* in the lowercased query; "none" when no category has one
FirstHit(table, ql) ==
  LET matching == {i \in 1..Len(table) : HitsAt(table, i, ql)}
  IN IF matching = {} THEN "none"
     ELSE table[CHOOSE i \in matching : \A j \in matching : i <= j].category

StableClause(c) == <<"RAG: ", c, " information is stable. ">>
DynamicClause(c) == <<"Search: ", c, " requires current data. ">>
NeighborhoodClause == <<"Both: Neighborhood details + current market. ">>

\* the rule of the first matching hybrid category h fires, d being the
\* first matching dynamic category
HybridFires(d, h) ==
  \/ h = "neighborhoods" /\ d # "none"
  \/ h \in {"comparison", "investment"}

\* the clauses of the rules that fire for the first matching categories s
\* (stable), d (dynamic) and h (hybrid): at most one per table, in the order
\* stable, dynamic, hybrid
FiredClauses(s, d, h) ==
  (IF s # "none" THEN <<StableClause(s)>> ELSE << >>)
  \o (IF d # "none" THEN <<DynamicClause(d)>> ELSE << >>)
  \o (IF HybridFires(d, h)
        THEN << (IF h = "neighborhoods" THEN NeighborhoodClause
                 ELSE IF h = "comparison" THEN ComparisonClause
                 ELSE InvestmentClause) >>
        ELSE << >>)

Qualifier(d) ==
  IF d = "market" THEN MarketSuffix
  ELSE IF d = "availability" THEN ListingsSuffix
  ELSE << >>

\* C17: the knowledge query is the query itself and the web query
\* starts with the query, unchanged; a qualifier follows it exactly when the
\* first matching dynamic category is market (year and domain) or
\* availability (listing service), and then web search is selected.
C17_Theorem ==
  returned =>
    LET d == FirstHit(dynamic_topics, lower(query))
    IN /\ decision.rag_query = query
       /\ Len(decision.search_query) >= Len(query)
       /\ SubSeq(decision.search_query, 1, Len(query)) = query
       /\ decision.search_query = query \o Qualifier(d)
       /\ decision.search_query # query <=> d \in {"market", "availability"}
       /\ decision.search_query # query => decision.use_search

C17_Witness ==
  /\ returned
  /\ query = Q_MortgageRates
  /\ decision.rag_query = Q_MortgageRates
  /\ decision.search_query = Q_MortgageRates \o MarketSuffix
  /\ decision.use_search

(***************************************************************************)
(* Truncation at hit boundaries (checked under SpecContext)                *)
(***************************************************************************)
\* the number of leading hits before the first one that pushes the running
\* content token count over the budget
FittingPrefix(results, budget) ==
  CHOOSE n \in 0..Len(results) :
    /\ ContentTokens(results, n) <= budget
    /\ n < Len(results) => ContentTokens(results, n + 1) > budget

\* C18: the assembled context is the whole tagged hits of a prefix of
\* the hit list, in returned order, joined by the separator: the prefix ends
\* before the first hit that would push the running token count over the
\* budget, and that hit and every later one are left out even when a later
\* one would fit.
C18_Theorem ==
  returned =>
    context = PrefixContext(hits, FittingPrefix(hits, max_tokens))

C18_Witness ==
  /\ returned
  /\ Len(hits) = 3
  /\ hits[1].content = Content4 /\ hits[2].content = Content9 /\ hits[3].content = Content3
  /\ max_tokens = 2
  /\ ContentTokens(hits, 1) + (Len(hits[3].content) \div 4) <= max_tokens
  /\ context = tagged(hits[1])

(***************************************************************************)
(* Properties of the dispatched web query and of the memory frame (checked *)
(* under Spec)                                                             *)
(***************************************************************************)
\* C19: in a turn that calls the web search, with a location set in the
\* context map the dispatched query contains the location, which is appended
\* (after a space) exactly when the classifier's web query does not contain
\* it already; augmenting the dispatched query again changes nothing; with
\* no location set the dispatched query is the classifier's web query.
C19_Theorem ==
  [][ (turn' # turn /\ Called(turn', "search")) =>
        LET web_query == turn'.details.decision.search_query
            sent      == turn'.details.search_query
            location  == json_context'.location
        IN /\ json_context' = json_context
           /\ json_context'.has_location =>
                /\ Contains(sent, location)
                /\ sent = IF Contains(web_query, location)
                            THEN web_query
                            ELSE web_query \o <<" ">> \o location
           /\ ~json_context'.has_location => sent = web_query
           /\ augmented_query(sent, json_context') = sent ]_vars

C19_Witness ==
  /\ turn.raw_input = In_Price
  /\ Called(turn, "search")
  /\ json_context = [has_location |-> TRUE, location |-> Loc_FL]
  /\ Contains(turn.details.decision.search_query, Loc_FL)
  /\ turn.details.search_query = In_Price \o MarketSuffix

\* C20: a turn changes the conversation memory only when the language
\* model returns a reply, and then it appends one exchange holding the
\* trimmed input and that reply (the memory keeping its last 20 exchanges);
\* a turn that ends with the prompt-for-input, the farewell or the apology
\* leaves the memory as it was; no turn changes the context map.
C20_Theorem ==
  [][ (turn' # turn \/ conversation_memory' # conversation_memory) =>
        LET old == conversation_memory
            new == conversation_memory'
            kept == Len(new) - 1
        IN /\ json_context' = json_context
           /\ IF CalledWith(turn', "generate", {"none"})
                THEN /\ turn'.reply \in ModelReplies
                     /\ Len(new) = Min(Len(old) + 1, 20)
                     /\ new[Len(new)].user = strip(turn'.raw_input)
                     /\ new[Len(new)].agent = turn'.reply
                     /\ \A i \in 1..kept : new[i] = old[Len(old) - kept + i]
                ELSE new = old
           /\ turn'.reply \in {PromptForInput, Farewell, Apology} => new = old ]_vars

C20_Witness ==
  /\ Len(conversation_memory) = 1
  /\ conversation_memory[1].user = <<"h","i">>
  /\ conversation_memory[1].agent \in ModelReplies
  /\ turn.reply = Apology
  /\ Called(turn, "generate")

(***************************************************************************)
(* The comprehensive rule (checked under SpecClassify)                     *)
(***************************************************************************)
ComprehensiveClause == <<"Comprehensive neighborhood information requested. ">>

\* C23: the comprehensive rule never fires: no decision carries its
\* clause, because a query with a neighborhood name stops the hybrid loop at
\* the neighborhoods category, and a query without one fails the rule's
\* neighborhood test, so that its flags and clauses are those of the stable
\* and dynamic loops or of the fallback.
C23_Theorem ==
  returned =>
    LET ql == lower(query)
        h == FirstHit(hybrid_topics, ql)
    IN /\ ComprehensiveClause \notin Clauses(decision)
       /\ HitsCategory(hybrid_topics, "neighborhoods", query) => h = "neighborhoods"
       /\ h = "comprehensive" =>
            /\ ~HitsCategory(hybrid_topics, "neighborhoods", query)
            /\ decision.use_search <=> HitsTable(dynamic_topics, query)
            /\ \A i \in 1..Len(decision.reasoning) :
                 decision.reasoning[i][1] \in {"RAG: ", "Search: ", "RAG: High relevance content found. ",
                                               "Default: Checking knowledge base first. ",
                                               "Default: General query, checking knowledge base. "}

C23_Witness ==
  /\ returned
  /\ query = W_Brickell \o SP \o W_overview \o SP \o W_price
  /\ HitsCategory(hybrid_topics, "comprehensive", query)
  /\ HitsCategory(hybrid_topics, "neighborhoods", query)
  /\ decision.reasoning = <<DynamicClause("market"), NeighborhoodClause>>
  /\ ComprehensiveClause \notin Clauses(decision)


\* C22: in every turn that reaches generation the source labels match the
\* contexts used: "Knowledge Base" is listed exactly when the knowledge-base
\* context is non-empty and "Current Web Data" exactly when the web context
\* is non-empty, the knowledge base first; the list is empty exactly when
\* the combined context is the no-information sentinel; and the exchange an
\* answered turn records carries these labels joined by ", ".
C22_Theorem ==
  Called(turn, "generate") =>
    LET t   == turn.details
        kb  == Len(t.rag_context) > 0
        web == Len(t.search_context) > 0
    IN /\ t.sources_used = (IF kb THEN <<"Knowledge Base">> ELSE << >>)
                           \o (IF web THEN <<"Current Web Data">> ELSE << >>)
       /\ (\E i \in 1..Len(t.sources_used) : t.sources_used[i] = "Knowledge Base") <=> kb
       /\ (\E i \in 1..Len(t.sources_used) : t.sources_used[i] = "Current Web Data") <=> web
       /\ (t.sources_used = << >>) <=> (t.combined_context = NoInfo)
       /\ turn.path = "answered" =>
            /\ Len(conversation_memory) > 0
            /\ conversation_memory[Len(conversation_memory)].sources =
                 (IF kb /\ web THEN <<"Knowledge Base", ", ", "Current Web Data">>
                  ELSE IF kb THEN <<"Knowledge Base">>
                  ELSE IF web THEN <<"Current Web Data">>
                  ELSE << >>)

C22_Witness ==
  /\ Called(turn, "generate")
  /\ turn.path = "answered"
  /\ Called(turn, "retrieve")
  /\ turn.details.rag_context = << >>
  /\ turn.details.search_context # << >>
  /\ turn.details.sources_used = <<"Current Web Data">>
  /\ conversation_memory[Len(conversation_memory)].sources = <<"Current Web Data">>

\* C21: every snapshot written to disk contains at most 20 exchanges,
\* including the snapshot the SIGINT/SIGTERM handler writes when the signal
\* is delivered inside _add_to_memory, after the new exchange is appended
\* and before the oldest one is trimmed.
C21_Claim ==
  /\ Len(session_file.conversation_memory) <= MemoryCapacity
  /\ last_save.io = "ok" => Len(last_save.save_data.conversation_memory) <= MemoryCapacity
====
